---- MODULE Spec2Model ----
(***************************************************************************)
(* Model of track_check.py (read_track_file, check_overlap,                *)
(* overlap_recursive) and of gene_sketcher.draw_tracks, which calls        *)
(* read_track_file and overlap_recursive. The code is Python 2 (print      *)
(* statement, iteritems): str.strip and int are modelled as Python 2.7     *)
(* defines them.                                                           *)
(*                                                                         *)
(* A marker ("track") is the Python tuple (name, position), written        *)
(* <<name, position>>: Python's track[0] is track[1] here and Python's     *)
(* track[1] is track[2] here.                                              *)
(***************************************************************************)
EXTENDS Integers, Sequences, FiniteSets

VARIABLES
    pc,               \* position of the running call
    caller,           \* which function was entered
    gene_track_list,  \* the argument of the call
    minimum,          \* check_overlap's minimum parameter
    overlap,          \* overlap_recursive / check_overlap local
    not_overlap,      \* overlap_recursive / check_overlap local
    final_tracks,     \* overlap_recursive local; draw_tracks' tracks
    calls,            \* history: number of check_overlap calls made
    given,            \* history: length of the list handed to the last check_overlap
    file,             \* read_track_file: the lines of the file
    lineno,           \* read_track_file: number of lines consumed by the for loop
    track_info,       \* read_track_file local
    track_sorted,     \* read_track_file result
    gene_name,        \* draw_tracks: the gene the GFF file names
    diagram,          \* draw_tracks: the data of the custom tracks added
    err               \* the exception that ended the call, "" when none

vars == <<pc, caller, gene_track_list, minimum, overlap, not_overlap,
          final_tracks, calls, given, file, lineno, track_info, track_sorted,
          gene_name, diagram, err>>

partvars == <<caller, gene_track_list, minimum, overlap, not_overlap,
              final_tracks, calls, given>>

loadvars == <<file, lineno, track_info, track_sorted>>

drawvars == <<gene_name, diagram>>

----------------------------------------------------------------------------
(* Bounds *)

\* longest marker list handed to the partitioner
MaxLen == 4

\* longest file handed to the loader
MaxLines == 3

\* the while loop of overlap_recursive is cut after this many check_overlap
\* calls; only inputs on which the loop never ends get this far
MaxCalls == MaxLen + 2

----------------------------------------------------------------------------
(* Program constants *)

\* check_overlap's default for minimum
DefaultMinimum == 5000

\* check_overlap's initial prev_track
InitialPrevTrack == -100000

----------------------------------------------------------------------------
(* check_overlap *)

\* the for loop of check_overlap, on the tracks not yet scanned
RECURSIVE ScanTracks(_, _, _, _, _)
ScanTracks(rest, min, prev_track, ov, nov) ==
    IF rest = <<>>
    THEN [overlap |-> ov, not_overlap |-> nov]
    ELSE LET track == Head(rest) IN
         IF track[2] - prev_track <= min
         THEN ScanTracks(Tail(rest), min, track[2], Append(ov, track), nov)
         ELSE ScanTracks(Tail(rest), min, track[2], ov, Append(nov, track))

\* the same loop with < for <=
RECURSIVE ScanTracksStrict(_, _, _, _, _)
ScanTracksStrict(rest, min, prev_track, ov, nov) ==
    IF rest = <<>>
    THEN [overlap |-> ov, not_overlap |-> nov]
    ELSE LET track == Head(rest) IN
         IF track[2] - prev_track < min
         THEN ScanTracksStrict(Tail(rest), min, track[2], Append(ov, track), nov)
         ELSE ScanTracksStrict(Tail(rest), min, track[2], ov, Append(nov, track))

\* check_overlap's assertion
CheckOverlapAssert(list) == Len(list) > 1

\* check_overlap with < for <= in the comparison
CheckOverlapStrict(list, min) ==
    ScanTracksStrict(list, min, InitialPrevTrack, <<>>, <<>>)

\* check_overlap with prev_track starting at 0
CheckOverlapFromZero(list, min) ==
    ScanTracks(list, min, 0, <<>>, <<>>)

\* the value check_overlap returns when its assertion holds
CheckOverlap(list, min) ==
    ScanTracks(list, min, InitialPrevTrack, <<>>, <<>>)

----------------------------------------------------------------------------
(* str.strip, str.split, int, sorted *)

\* A character is a one-character string; the vertical tab (0x0b), which a
\* string here cannot spell, is this token.
VerticalTab == "\\v"

\* the characters str.strip() removes
Whitespace == {" ", "\t", "\n", "\r", "\f", VerticalTab}

RECURSIVE LStrip(_)
LStrip(s) == IF s # <<>> /\ Head(s) \in Whitespace THEN LStrip(Tail(s)) ELSE s

RECURSIVE RStrip(_)
RStrip(s) ==
    IF s # <<>> /\ s[Len(s)] \in Whitespace THEN RStrip(SubSeq(s, 1, Len(s) - 1)) ELSE s

\* line.strip()
Strip(s) == RStrip(LStrip(s))

RECURSIVE SplitFrom(_, _, _, _)
SplitFrom(rest, sep, field, fields) ==
    IF rest = <<>> THEN Append(fields, field)
    ELSE IF Head(rest) = sep
         THEN SplitFrom(Tail(rest), sep, <<>>, Append(fields, field))
         ELSE SplitFrom(Tail(rest), sep, Append(field, Head(rest)), fields)

\* s.split(sep): always at least one field
Split(s, sep) == SplitFrom(s, sep, <<>>, <<>>)

DigitChars == <<"0", "1", "2", "3", "4", "5", "6", "7", "8", "9">>

IsDigit(c) == \E i \in 1..10 : DigitChars[i] = c

DigitValue(c) == (CHOOSE i \in 1..10 : DigitChars[i] = c) - 1

\* the digits of an int() argument: surrounding whitespace, one sign and the
\* whitespace after the sign removed (Python 2: int("- 5") is -5)
Unsigned(s) ==
    LET t == Strip(s)
    IN IF t # <<>> /\ Head(t) \in {"+", "-"} THEN LStrip(Tail(t)) ELSE t

\* int(s) returns a value (it raises ValueError otherwise)
IsIntLiteral(s) ==
    /\ Unsigned(s) # <<>>
    /\ \A i \in 1..Len(Unsigned(s)) : IsDigit(Unsigned(s)[i])

RECURSIVE Decimal(_, _)
Decimal(digits, acc) ==
    IF digits = <<>> THEN acc
    ELSE Decimal(Tail(digits), 10 * acc + DigitValue(Head(digits)))

\* int(s), for s with IsIntLiteral(s)
IntOf(s) ==
    LET t == Strip(s)
    IN IF Head(t) = "-" THEN 0 - Decimal(Unsigned(s), 0) ELSE Decimal(Unsigned(s), 0)

\* line.strip().split("\t")
Fields(line) == Split(Strip(line), "\t")

\* sorted() puts a track before the first track of greater or equal position
RECURSIVE InsertBeforeEqual(_, _)
InsertBeforeEqual(s, t) ==
    IF s = <<>> THEN <<t>>
    ELSE IF t[2] <= Head(s)[2] THEN <<t>> \o s
         ELSE <<Head(s)>> \o InsertBeforeEqual(Tail(s), t)

\* sorted() places a track after every track of smaller or equal position
RECURSIVE InsertByPos(_, _)
InsertByPos(s, t) ==
    IF s = <<>> THEN <<t>>
    ELSE IF t[2] < Head(s)[2] THEN <<t>> \o s
         ELSE <<Head(s)>> \o InsertByPos(Tail(s), t)

RECURSIVE SortFromUnstable(_, _)
SortFromUnstable(tracks, acc) ==
    IF tracks = <<>> THEN acc
    ELSE SortFromUnstable(Tail(tracks), InsertBeforeEqual(acc, Head(tracks)))

RECURSIVE SortFrom(_, _)
SortFrom(tracks, acc) ==
    IF tracks = <<>> THEN acc
    ELSE SortFrom(Tail(tracks), InsertByPos(acc, Head(tracks)))

\* a sort by position that reverses tracks of equal position
SortedUnstable(tracks) == SortFromUnstable(tracks, <<>>)

\* sorted(tracks, key=itemgetter(1)): Python's sort is stable
SortedByPos(tracks) == SortFrom(tracks, <<>>)

----------------------------------------------------------------------------
(* Inputs *)

Markers ==
    { <<"A", 100>>, <<"B", 200>>, <<"C", 6000>>, <<"D", 6050>>,
      <<"E", 5100>>, <<"G", 100>>, <<"F", -100000>> }

Minimums == {0, 5000, 200000}

IsSortedByPos(s) == \A i \in 1..(Len(s) - 1) : s[i][2] <= s[i + 1][2]

SortedLists ==
    { s \in UNION { [1..n -> Markers] : n \in 0..MaxLen } : IsSortedByPos(s) }

Callers == {"overlap_recursive", "check_overlap", "draw_tracks"}

\* A line of the file is the sequence of its characters, the ending "\n"
\* included, as "for line in f" yields it.
LineGA5 == <<"g", "\t", "a", "\t", "5", "\n">>
LineGB5 == <<"g", "\t", "b", "\t", "5", "\n">>
LineGC3 == <<"g", "\t", "c", "\t", "3", "\f", "\n">>
LineHA12 == <<"h", "\t", "a", "\t", "1", "2", "\n">>
LineGBNeg4 == <<"g", "\t", "b", "\t", "-", " ", "4", "\n">>
LineTwoFields == <<"g", "\t", "a", "\n">>
LineNotInt == <<"g", "\t", "a", "\t", "x", "\n">>
LineFourFields == <<"g", "\t", "a", "\t", "5", "\t", "z", "\n">>
LineEmpty == <<"\n">>

FileLines ==
    { LineGA5, LineGB5, LineGC3, LineHA12, LineGBNeg4,
      LineTwoFields, LineNotInt, LineFourFields, LineEmpty }

Files == UNION { [1..n -> FileLines] : n \in 0..MaxLines }

\* the gene name draw_tracks takes from the third line of the GFF file
GeneNames == { <<"g">>, <<"h">>, <<"x">> }

----------------------------------------------------------------------------
(* read_track_file *)

\* one iteration of "for line in f"
ReadLine ==
    /\ pc = "reading"
    /\ lineno < Len(file)
    /\ lineno' = lineno + 1
    /\ LET data == Fields(file[lineno + 1]) IN
         IF Len(data) < 3
         THEN /\ pc' = "error"
              /\ err' = "IndexError"
              /\ UNCHANGED track_info
         ELSE IF ~IsIntLiteral(data[3])
         THEN /\ pc' = "error"
              /\ err' = "ValueError"
              /\ UNCHANGED track_info
         ELSE LET gene == data[1]
                  track == <<data[2], IntOf(data[3])>>
              IN /\ track_info' =
                       [g \in DOMAIN track_info \cup {gene} |->
                           IF g = gene
                           THEN (IF gene \in DOMAIN track_info
                                 THEN Append(track_info[gene], track)
                                 ELSE <<track>>)
                           ELSE track_info[g]]
                 /\ UNCHANGED <<pc, err>>
    /\ UNCHANGED <<file, track_sorted>>
    /\ UNCHANGED partvars
    /\ UNCHANGED drawvars

\* the second for loop and the return, to draw_tracks when it is the caller
SortTracks ==
    /\ pc = "reading"
    /\ lineno = Len(file)
    /\ track_sorted' = [g \in DOMAIN track_info |-> SortedByPos(track_info[g])]
    /\ pc' = IF caller = "draw_tracks" THEN "loaded" ELSE "done"
    /\ UNCHANGED <<file, lineno, track_info, err>>
    /\ UNCHANGED partvars
    /\ UNCHANGED drawvars

----------------------------------------------------------------------------
(* overlap_recursive, check_overlap called directly, draw_tracks *)

\* where a returning overlap_recursive goes on: in draw_tracks or nowhere
ReturnPc == IF caller = "draw_tracks" THEN "tracks" ELSE "done"

\* overlap_recursive up to the while loop: the assertion, the first
\* check_overlap, final_tracks = [not_overlap], the test "if overlap"
OverlapRecursiveEnter(list) ==
    IF ~(Len(list) > 1)
    THEN /\ pc' = "error"
         /\ err' = "AssertionError"
         /\ UNCHANGED <<overlap, not_overlap, final_tracks, calls, given>>
    ELSE LET r == CheckOverlap(list, DefaultMinimum) IN
         /\ overlap' = r.overlap
         /\ not_overlap' = r.not_overlap
         /\ final_tracks' = <<r.not_overlap>>
         /\ calls' = calls + 1
         /\ given' = Len(list)
         /\ pc' = IF r.overlap # <<>> THEN "while" ELSE ReturnPc
         /\ err' = err

\* a direct call of overlap_recursive
CallOverlapRecursive ==
    /\ pc = "start"
    /\ caller = "overlap_recursive"
    /\ OverlapRecursiveEnter(gene_track_list)
    /\ UNCHANGED <<caller, gene_track_list, minimum>>
    /\ UNCHANGED loadvars
    /\ UNCHANGED drawvars

\* draw_tracks with > 0 for > 1 in its test on the length
DrawTracksNoGuard ==
    /\ pc = "loaded"
    /\ caller = "draw_tracks"
    /\ IF gene_name \in DOMAIN track_sorted
       THEN /\ gene_track_list' = track_sorted[gene_name]
            /\ IF Len(track_sorted[gene_name]) > 0
               THEN OverlapRecursiveEnter(track_sorted[gene_name])
               ELSE /\ final_tracks' = <<track_sorted[gene_name]>>
                    /\ pc' = "tracks"
                    /\ UNCHANGED <<overlap, not_overlap, calls, given, err>>
       ELSE /\ pc' = "done"
            /\ UNCHANGED <<gene_track_list, overlap, not_overlap, final_tracks,
                           calls, given, err>>
    /\ UNCHANGED <<caller, minimum>>
    /\ UNCHANGED loadvars
    /\ UNCHANGED drawvars

\* draw_tracks after read_track_file has returned: the test
\* "gene_name in track_sorted" and the branch on len(gene_track_list); with
\* no entry for the gene nothing is bound and the diagram is returned as it is
DrawTracks ==
    /\ pc = "loaded"
    /\ caller = "draw_tracks"
    /\ IF gene_name \in DOMAIN track_sorted
       THEN /\ gene_track_list' = track_sorted[gene_name]
            /\ IF Len(track_sorted[gene_name]) > 1
               THEN OverlapRecursiveEnter(track_sorted[gene_name])
               ELSE /\ final_tracks' = <<track_sorted[gene_name]>>
                    /\ pc' = "tracks"
                    /\ UNCHANGED <<overlap, not_overlap, calls, given, err>>
       ELSE /\ pc' = "done"
            /\ UNCHANGED <<gene_track_list, overlap, not_overlap, final_tracks,
                           calls, given, err>>
    /\ UNCHANGED <<caller, minimum>>
    /\ UNCHANGED loadvars
    /\ UNCHANGED drawvars

\* one iteration of "while len(overlap) > 1"
WhileIter ==
    /\ pc = "while"
    /\ Len(overlap) > 1
    /\ calls < MaxCalls
    /\ LET r == CheckOverlap(overlap, DefaultMinimum) IN
         /\ overlap' = r.overlap
         /\ not_overlap' = r.not_overlap
         /\ final_tracks' = Append(final_tracks, r.not_overlap)
    /\ calls' = calls + 1
    /\ given' = Len(overlap)
    /\ UNCHANGED <<pc, err, caller, gene_track_list, minimum>>
    /\ UNCHANGED loadvars
    /\ UNCHANGED drawvars

\* the else clause with not_overlap appended as well
WhileElseTwice ==
    /\ pc = "while"
    /\ ~(Len(overlap) > 1)
    /\ final_tracks' = Append(Append(final_tracks, not_overlap), overlap)
    /\ pc' = ReturnPc
    /\ UNCHANGED <<err, caller, gene_track_list, minimum, overlap, not_overlap,
                   calls, given>>
    /\ UNCHANGED loadvars
    /\ UNCHANGED drawvars

\* the else clause left out
WhileElseSkip ==
    /\ pc = "while"
    /\ ~(Len(overlap) > 1)
    /\ pc' = ReturnPc
    /\ UNCHANGED <<err, caller, gene_track_list, minimum, overlap, not_overlap,
                   final_tracks, calls, given>>
    /\ UNCHANGED loadvars
    /\ UNCHANGED drawvars

\* the while loop's else clause: runs when the condition turns false,
\* whether overlap then holds one element or none
WhileElse ==
    /\ pc = "while"
    /\ ~(Len(overlap) > 1)
    /\ final_tracks' = Append(final_tracks, overlap)
    /\ pc' = ReturnPc
    /\ UNCHANGED <<err, caller, gene_track_list, minimum, overlap, not_overlap,
                   calls, given>>
    /\ UNCHANGED loadvars
    /\ UNCHANGED drawvars

\* draw_tracks' "hold": the tuples of a lane as (position, name)
Reorder(track) == [i \in 1..Len(track) |-> <<track[i][2], track[i][1]>>]

\* dict(pairs): the last pair of a key gives its value
DictOf(pairs) ==
    [k \in { pairs[i][1] : i \in 1..Len(pairs) } |->
        pairs[CHOOSE i \in 1..Len(pairs) :
                 /\ pairs[i][1] = k
                 /\ \A j \in (i + 1)..Len(pairs) : pairs[j][1] # k][2]]

\* the rest of draw_tracks: tracks_reorder, then one custom track per lane
AddCustomTracks ==
    /\ pc = "tracks"
    /\ caller = "draw_tracks"
    /\ diagram' = diagram \o
           [l \in 1..Len(final_tracks) |-> DictOf(Reorder(final_tracks[l]))]
    /\ pc' = "done"
    /\ UNCHANGED <<gene_name, err>>
    /\ UNCHANGED partvars
    /\ UNCHANGED loadvars

\* a direct call of check_overlap(gene_track_list, minimum)
CallCheckOverlap ==
    /\ pc = "start"
    /\ caller = "check_overlap"
    /\ IF ~CheckOverlapAssert(gene_track_list)
       THEN /\ pc' = "error"
            /\ err' = "AssertionError"
            /\ UNCHANGED <<overlap, not_overlap, calls, given>>
       ELSE LET r == CheckOverlap(gene_track_list, minimum) IN
            /\ overlap' = r.overlap
            /\ not_overlap' = r.not_overlap
            /\ calls' = calls + 1
            /\ given' = Len(gene_track_list)
            /\ pc' = "done"
            /\ err' = err
    /\ UNCHANGED <<caller, gene_track_list, minimum, final_tracks>>
    /\ UNCHANGED loadvars
    /\ UNCHANGED drawvars

----------------------------------------------------------------------------
(* Specifications *)

\* a call of overlap_recursive or check_overlap on a sorted list, or a call
\* of draw_tracks on a track file and a gene name
Init ==
    /\ caller \in Callers
    /\ IF caller = "draw_tracks"
       THEN /\ pc = "reading"
            /\ file \in Files
            /\ gene_name \in GeneNames
            /\ gene_track_list = <<>>
       ELSE /\ pc = "start"
            /\ file = <<>>
            /\ gene_name = <<>>
            /\ gene_track_list \in SortedLists
    /\ minimum \in (IF caller = "check_overlap" THEN Minimums ELSE {DefaultMinimum})
    /\ overlap = <<>>
    /\ not_overlap = <<>>
    /\ final_tracks = <<>>
    /\ calls = 0
    /\ given = 0
    /\ lineno = 0
    /\ track_info = <<>>
    /\ track_sorted = <<>>
    /\ diagram = <<>>
    /\ err = ""

Next ==
    \/ CallOverlapRecursive
    \/ CallCheckOverlap
    \/ ReadLine
    \/ SortTracks
    \/ DrawTracks
    \/ WhileIter
    \/ WhileElse
    \/ AddCustomTracks

Spec == Init /\ [][Next]_vars

\* a call of read_track_file on a track file
InitLoad ==
    /\ pc = "reading"
    /\ caller = "read_track_file"
    /\ file \in Files
    /\ lineno = 0
    /\ track_info = <<>>
    /\ track_sorted = <<>>
    /\ err = ""
    /\ gene_track_list = <<>>
    /\ minimum = DefaultMinimum
    /\ overlap = <<>>
    /\ not_overlap = <<>>
    /\ final_tracks = <<>>
    /\ calls = 0
    /\ given = 0
    /\ gene_name = <<>>
    /\ diagram = <<>>

NextLoad ==
    \/ ReadLine
    \/ SortTracks

SpecLoad == InitLoad /\ [][NextLoad]_vars

----------------------------------------------------------------------------
(* Properties of the loader *)

\* the (marker name, position) pairs of the lines naming gene, in file order
RECURSIVE GeneRecords(_, _)
GeneRecords(lines, gene) ==
    IF lines = <<>> THEN <<>>
    ELSE LET data == Fields(Head(lines))
         IN (IF data[1] = gene THEN << <<data[2], IntOf(data[3])>> >> ELSE <<>>)
            \o GeneRecords(Tail(lines), gene)

\* out is the stable sort by position of in
IsStableSortOf(out, in) ==
    /\ Len(out) = Len(in)
    /\ \E p \in [1..Len(in) -> 1..Len(in)] :
          /\ \A i, j \in 1..Len(in) : i # j => p[i] # p[j]
          /\ \A i \in 1..Len(in) : out[i] = in[p[i]]
          /\ \A i, j \in 1..Len(in) :
                i < j => /\ out[i][2] <= out[j][2]
                         /\ out[i][2] = out[j][2] => p[i] < p[j]

\* C7: the list read_track_file returns for a gene is the stable sort by
\* position of the records of the lines naming that gene, and only the genes
\* some line names are keys of the result.
C7_StableSort ==
    (pc = "done" /\ caller = "read_track_file") =>
        /\ DOMAIN track_sorted = { Fields(file[i])[1] : i \in 1..Len(file) }
        /\ \A g \in DOMAIN track_sorted :
              IsStableSortOf(track_sorted[g], GeneRecords(file, g))

\* a load that had to move a record and to keep two equal positions in
\* file order
C7_Witness ==
    /\ pc = "done"
    /\ file = <<LineGB5, LineGA5, LineGC3>>
    /\ track_sorted[<<"g">>] = << <<<<"c">>, 3>>, <<<<"b">>, 5>>, <<<<"a">>, 5>> >>

\* the line does not hold exactly three tab-separated fields, or its third
\* field is no integer literal
Malformed(line) ==
    \/ Len(Fields(line)) # 3
    \/ ~IsIntLiteral(Fields(line)[3])

\* C8: once read_track_file has met a malformed line the load has failed
\* with an error and returns no mapping.
C8_FailFast ==
    caller = "read_track_file" =>
        \A i \in 1..Len(file) :
            (lineno >= i /\ Malformed(file[i])) =>
                (pc = "error" /\ lineno = i /\ track_sorted = <<>>)

----------------------------------------------------------------------------
(* Helpers of the properties of the partitioner *)

RECURSIVE Flatten(_)
Flatten(lanes) == IF lanes = <<>> THEN <<>> ELSE Head(lanes) \o Flatten(Tail(lanes))

Count(m, s) == Cardinality({ i \in 1..Len(s) : s[i] = m })

NonNegative(s) == \A i \in 1..Len(s) : s[i][2] >= 0

\* overlap_recursive has returned, from a list of at least 2 markers
Returned ==
    /\ pc \in {"tracks", "done"}
    /\ caller \in {"overlap_recursive", "draw_tracks"}
    /\ Len(gene_track_list) >= 2

\* f assigns the markers of s to lanes so that any two markers of a lane are
\* more than DefaultMinimum apart
ValidAssignment(s, f) ==
    \A i, j \in 1..Len(s) :
        (i < j /\ f[i] = f[j]) => s[j][2] - s[i][2] > DefaultMinimum

CanPartition(s, k) == \E f \in [1..Len(s) -> 1..k] : ValidAssignment(s, f)

\* the least number of lanes any valid partition of s needs
MinLanes(s) == CHOOSE k \in 0..Len(s) :
                  /\ CanPartition(s, k)
                  /\ \A h \in 0..(k - 1) : ~CanPartition(s, h)

\* the markers that check_overlap must send to overlap when each marker is
\* compared with the one scanned immediately before it
AdjacentOverlap(s, min) ==
    LET Close(i) == i > 1 /\ s[i][2] - s[i - 1][2] <= min
        RECURSIVE Pick(_)
        Pick(i) == IF i > Len(s) THEN <<>>
                   ELSE (IF Close(i) THEN <<s[i]>> ELSE <<>>) \o Pick(i + 1)
    IN Pick(1)

AdjacentClear(s, min) ==
    LET Close(i) == i > 1 /\ s[i][2] - s[i - 1][2] <= min
        RECURSIVE Pick(_)
        Pick(i) == IF i > Len(s) THEN <<>>
                   ELSE (IF Close(i) THEN <<>> ELSE <<s[i]>>) \o Pick(i + 1)
    IN Pick(1)

ScenarioInput == << <<"A", 100>>, <<"B", 200>>, <<"C", 6000>>, <<"D", 6050>> >>

ScenarioLanes == << << <<"A", 100>>, <<"C", 6000>> >>, << <<"B", 200>>, <<"D", 6050>> >> >>

----------------------------------------------------------------------------
(* Properties of the partitioner *)

\* C1: when overlap_recursive returns from a sorted list of n >= 2 markers,
\* the lanes together hold every (name, position) pair exactly as many times
\* as the input holds it, and nothing else.
C1_Completeness ==
    Returned =>
        /\ Len(Flatten(final_tracks)) = Len(gene_track_list)
        /\ \A i \in 1..Len(gene_track_list) :
              Count(gene_track_list[i], Flatten(final_tracks))
                 = Count(gene_track_list[i], gene_track_list)

\* a run that returned three lanes, the last one appended by the else clause
C1_Witness ==
    /\ Returned
    /\ Len(final_tracks) = 3
    /\ Len(final_tracks[3]) = 1
    /\ Len(gene_track_list) = 4

\* C2: in every lane overlap_recursive returns, any two markers are more than
\* 5000 apart.
C2_LanesSpaced ==
    Returned =>
        \A l \in 1..Len(final_tracks) :
            \A i, j \in 1..Len(final_tracks[l]) :
                i < j => final_tracks[l][j][2] - final_tracks[l][i][2] > DefaultMinimum

\* a returned lane holding two markers that were adjacent in the scan
C2_Witness ==
    /\ Returned
    /\ gene_track_list = << <<"A", 100>>, <<"C", 6000>>, <<"D", 6050>> >>
    /\ final_tracks[1] = << <<"A", 100>>, <<"C", 6000>> >>

\* C3: overlap_recursive never returns an empty lane, and the scenario
\* [(A,100),(B,200),(C,6000),(D,6050)] returns exactly [[A,C],[B,D]].
C3_NoEmptyLane ==
    Returned =>
        /\ \A l \in 1..Len(final_tracks) : final_tracks[l] # <<>>
        /\ gene_track_list = ScenarioInput => final_tracks = ScenarioLanes

\* C4 as claimed: the markers cannot be partitioned into fewer lanes than
\* overlap_recursive returns.
C4_MinimumLanes ==
    Returned =>
        \A k \in 0..(Len(final_tracks) - 1) : ~CanPartition(gene_track_list, k)

\* C4 as amended: overlap_recursive never returns fewer lanes than the
\* least number a valid partition needs (it may return more).
C4_AtLeastMinimum ==
    Returned => Len(final_tracks) >= MinLanes(gene_track_list)

\* a run that returned three non-empty lanes where two suffice
C4_Witness ==
    /\ Returned
    /\ gene_track_list = << <<"A", 100>>, <<"E", 5100>>, <<"C", 6000>> >>
    /\ Len(final_tracks) = 3
    /\ CanPartition(gene_track_list, 2)

\* C5 as claimed: overlap_recursive returns at most n-1 lanes for n markers.
C5_AtMostNMinus1 ==
    Returned => Len(final_tracks) <= Len(gene_track_list) - 1

\* C5 as amended: overlap_recursive returns at most n lanes for n markers.
C5_AtMostN ==
    Returned => Len(final_tracks) <= Len(gene_track_list)

\* a run that returned as many lanes as it was given markers
C5_Witness ==
    /\ Returned
    /\ Len(gene_track_list) = 3
    /\ Len(final_tracks) = 3

\* overlap_recursive is running or has run on n >= 2 markers at
\* non-negative positions
NonNegativeRun ==
    /\ caller \in {"overlap_recursive", "draw_tracks"}
    /\ Len(gene_track_list) >= 2
    /\ NonNegative(gene_track_list)

\* C6: on n >= 2 markers at non-negative positions every check_overlap call
\* of overlap_recursive returns an overflow list shorter than the list it was
\* given, at most n-1 calls are made, and the run never stops before its end:
\* with the calls bounded and a step always possible, overlap_recursive
\* returns.
C6_Terminates ==
    NonNegativeRun =>
        /\ calls <= Len(gene_track_list) - 1
        /\ calls > 0 => Len(overlap) < given
        /\ pc = "done" \/ ENABLED Next

\* a run on non-negative positions that needed n-1 calls
C6_Witness ==
    /\ NonNegativeRun
    /\ pc = "done"
    /\ Len(gene_track_list) = 4
    /\ calls = 3

\* C9: overlap_recursive and check_overlap fail on fewer than 2 markers and
\* return nothing; draw_tracks never fails so: it hands overlap_recursive
\* only lists of more than one marker and makes a single marker the one lane.
C9_Precondition ==
    /\ (pc # "start" /\ caller \in {"overlap_recursive", "check_overlap"}
           /\ Len(gene_track_list) < 2)
          => (pc = "error" /\ err = "AssertionError" /\ final_tracks = <<>>
                /\ overlap = <<>> /\ not_overlap = <<>>)
    /\ caller = "draw_tracks" => err # "AssertionError"
    /\ (caller = "draw_tracks" /\ calls > 0) => Len(gene_track_list) > 1
    /\ (caller = "draw_tracks" /\ pc \in {"tracks", "done"}
           /\ Len(gene_track_list) = 1)
          => (final_tracks = <<gene_track_list>> /\ calls = 0)

\* draw_tracks has made the single marker of its gene the one lane and has
\* added the one custom track
C9_Witness ==
    /\ caller = "draw_tracks"
    /\ pc = "done"
    /\ file = <<LineHA12, LineGA5>>
    /\ gene_name = <<"h">>
    /\ final_tracks = << << <<<<"a">>, 12>> >> >>
    /\ Len(diagram) = 1

\* C10: for non-negative positions and any minimum >= 0, check_overlap
\* accepts the first marker and sends a later marker to overlap exactly when
\* it is within minimum of the marker scanned just before it.
C10_FirstAccepted ==
    (/\ pc = "done"
     /\ caller = "check_overlap"
     /\ NonNegative(gene_track_list)
     /\ minimum >= 0)
    => /\ not_overlap # <<>>
       /\ Head(not_overlap) = gene_track_list[1]
       /\ overlap = AdjacentOverlap(gene_track_list, minimum)
       /\ not_overlap = AdjacentClear(gene_track_list, minimum)

====
